---- MODULE Spec2Model ----
(***************************************************************************)
(* Plugin repository service (pkg/plugins/repository/service.go):         *)
(* version resolution and download-option selection.                      *)
(*                                                                         *)
(* Go strings that the code inspects character by character (the          *)
(* requested version, the catalog version strings) are sequences of       *)
(* one-character strings; opaque strings (ids, checksums) are TLA+        *)
(* strings.  A nil map is told apart from an empty map by ArchNil.        *)
(***************************************************************************)
EXTENDS Integers, Sequences, FiniteSets

VARIABLES repoURL, pc, call, pluginID, version, grafanaVersion, platform,
          plugin, v, err, log, dlOpts, calls, archive

vars == <<repoURL, pc, call, pluginID, version, grafanaVersion, platform,
          plugin, v, err, log, dlOpts, calls, archive>>

----------------------------------------------------------------------------
(* Bounds of the model *)

\* longest catalog (plugin.Versions) that the metadata source returns
MaxVersions == 2

\* where every requested version string is tried: the longest such string,
\* and the longest catalog it is resolved against
MaxLen == 2
MaxShort == 1

----------------------------------------------------------------------------
(* Input alphabets *)

grafanaComAPIRoot == "https://grafana.com/api/plugins"

\* characters of a requested version: the two prefixes, the space, two
\* other whitespace characters and a digit
Chars == {"^", "v", " ", "\t", "\n", "1"}

\* requested versions that the catalogs are resolved against: none, blank,
\* a bare prefix, present with and without prefix or inner space, absent
Requests ==
    { <<>>, <<" ">>, <<"v">>, <<"\t">>,
      <<"1">>, <<"v", "1">>, <<"^", "1">>,
      <<"1", "1">>, <<"1", " ", "1">>,
      <<"v", "v">>, <<"1", "1", "1">> }

Strings(n) == UNION {[1..k -> Chars] : k \in 0..n}

\* values of runtime.GOOS-runtime.GOARCH of the build
Platforms == {"linux-amd64", "windows-amd64"}

\* keys of Version.Arch in the catalogs
ArchKeys == {"linux-amd64", "any"}

SHA256Of == [k \in ArchKeys |-> IF k = "any" THEN "sha-any" ELSE "sha-linux-amd64"]

\* version strings of the catalog entries (the empty string included)
CatalogVersionStrings == {<<>>, <<"1">>, <<"1", "1">>}

PluginIDs == {"grafana-clock-panel"}

GrafanaVersions == {"10.0.0"}

ZipURLs == {"https://example.com/plugin.zip"}

\* the repoURL that ProvideService or a caller of New gives the service: the
\* default, a mirror, and a string that url.Parse rejects
RepoURLs == {grafanaComAPIRoot, "https://plugins.example.org/api", "://malformed"}

\* url.Parse(s.repoURL) returns no error
urlParseOk(u) == u # "://malformed"

Min(S) == CHOOSE x \in S : \A y \in S : x <= y

----------------------------------------------------------------------------
(* Data types *)

\* Version{Version, Arch}; Arch is map[string]ArchMeta, ArchMeta{SHA256}
VersionEntries ==
    {[Version |-> s, ArchNil |-> TRUE, Arch |-> [k \in {} |-> [SHA256 |-> ""]]] :
        s \in CatalogVersionStrings}
    \cup
    {[Version |-> s, ArchNil |-> FALSE, Arch |-> [k \in K |-> [SHA256 |-> SHA256Of[k]]]] :
        s \in CatalogVersionStrings, K \in SUBSET ArchKeys}

\* Plugin{ID, Versions} as unmarshalled from the repository response
CatalogsUpTo(n) ==
    {[ID |-> id, Versions |-> vs] :
        id \in PluginIDs,
        vs \in UNION {[1..k -> VersionEntries] : k \in 0..n}}

Catalogs == CatalogsUpTo(MaxVersions)

ShortCatalogs == CatalogsUpTo(MaxShort)

\* Plugin{} : the zero value
ZeroPlugin == [ID |-> "", Versions |-> <<>>]

\* var ver Version : the zero value
ZeroVersion == [Version |-> <<>>, ArchNil |-> TRUE, Arch |-> [k \in {} |-> [SHA256 |-> ""]]]

\* ArchMeta{} : the zero value, what a map read of a missing key yields
ZeroArchMeta == [SHA256 |-> ""]

\* (*Version)(nil), (*PluginDownloadOptions)(nil), (*PluginArchiveInfo)(nil)
NilVersion == [nil |-> TRUE]
NilOptions == [nil |-> TRUE]
NilArchive == [nil |-> TRUE]

\* error(nil)
NoErr == [type |-> "nil"]

osAndArchString == platform

SystemInfo(gv) == <<"grafana", gv, "os-arch", osAndArchString>>

ErrVersionUnsupported(id, requested, info) ==
    [type |-> "ErrVersionUnsupported", PluginID |-> id,
     RequestedVersion |-> requested, SystemInfo |-> info]

ErrVersionNotFound(id, requested, info) ==
    [type |-> "ErrVersionNotFound", PluginID |-> id,
     RequestedVersion |-> requested, SystemInfo |-> info]

----------------------------------------------------------------------------
(* Pure functions of service.go *)

\* strings.Replace(s, " ", "", 1)
ReplaceAllSpaces_Once(s) ==
    LET at == {i \in 1..Len(s) : s[i] = " "}
    IN  IF at = {}
        THEN s
        ELSE SubSeq(s, 1, Min(at) - 1) \o SubSeq(s, Min(at) + 1, Len(s))

\* strings.ReplaceAll(s, " ", "")
ReplaceAllSpaces(s) == SelectSeq(s, LAMBDA c : c # " ")

\* strings.HasPrefix(s, p) for a one-character p
HasPrefix(s, p) == Len(s) >= 1 /\ s[1] = p

\* drops the "^" only
normalizeVersion_Caret(vers) ==
    LET normalized == ReplaceAllSpaces(vers)
    IN  IF HasPrefix(normalized, "^") THEN Tail(normalized) ELSE normalized

normalizeVersion(vers) ==
    LET normalized == ReplaceAllSpaces(vers)
    IN  IF HasPrefix(normalized, "^") \/ HasPrefix(normalized, "v")
        THEN Tail(normalized)
        ELSE normalized

\* tests len(Arch) == 0 where the code tests Arch == nil
supportsCurrentArch_Len(ver) ==
    IF ver.ArchNil \/ DOMAIN ver.Arch = {}
    THEN TRUE
    ELSE \E arch \in DOMAIN ver.Arch : arch = osAndArchString \/ arch = "any"

\* lacks the nil test
supportsCurrentArch_NoNil(ver) ==
    \E arch \in DOMAIN ver.Arch : arch = osAndArchString \/ arch = "any"

\* accepts every entry that lists a platform
supportsCurrentArch_AnyKey(ver) ==
    IF ver.ArchNil
    THEN TRUE
    ELSE DOMAIN ver.Arch # {}

supportsCurrentArch(ver) ==
    IF ver.ArchNil
    THEN TRUE
    ELSE \E arch \in DOMAIN ver.Arch : arch = osAndArchString \/ arch = "any"

\* scans from the oldest entry
latestSupportedVersion_Oldest(pl) ==
    LET supported == {i \in 1..Len(pl.Versions) : supportsCurrentArch(pl.Versions[i])}
    IN  IF supported = {}
        THEN NilVersion
        ELSE pl.Versions[CHOOSE i \in supported : \A j \in supported : j <= i]

\* falls back to the newest entry when none is supported
latestSupportedVersion_Newest(pl) ==
    LET supported == {i \in 1..Len(pl.Versions) : supportsCurrentArch(pl.Versions[i])}
    IN  IF supported = {}
        THEN IF Len(pl.Versions) = 0 THEN NilVersion ELSE pl.Versions[1]
        ELSE pl.Versions[Min(supported)]

latestSupportedVersion(pl) ==
    LET supported == {i \in 1..Len(pl.Versions) : supportsCurrentArch(pl.Versions[i])}
    IN  IF supported = {} THEN NilVersion ELSE pl.Versions[Min(supported)]

\* matches by prefix, as a version range would
findVersion_Prefix(pl, vers) ==
    LET matching == {i \in 1..Len(pl.Versions) :
                        /\ Len(pl.Versions[i].Version) >= Len(vers)
                        /\ SubSeq(pl.Versions[i].Version, 1, Len(vers)) = vers}
    IN  IF matching = {} THEN ZeroVersion ELSE pl.Versions[Min(matching)]

\* substitutes the newest entry for a version that is not in the catalog
findVersion_Substitute(pl, vers) ==
    LET matching == {i \in 1..Len(pl.Versions) : pl.Versions[i].Version = vers}
    IN  IF matching = {}
        THEN IF Len(pl.Versions) = 0 THEN ZeroVersion ELSE pl.Versions[1]
        ELSE pl.Versions[Min(matching)]

\* the loop of lines 125-130: the first entry whose Version equals the
\* request, the zero Version when there is none
findVersion(pl, vers) ==
    LET matching == {i \in 1..Len(pl.Versions) : pl.Versions[i].Version = vers}
    IN  IF matching = {} THEN ZeroVersion ELSE pl.Versions[Min(matching)]

\* names the requested version where the fallback belongs
notFoundLog_Requested(id, vers, fallback) ==
    [msg |-> "not found but potential fallback version was found",
     plugin |-> id, version |-> vers, fallback |-> vers]

\* the Debugf calls of selectVersion
notFoundLog(id, vers, fallback) ==
    [msg |-> "not found but potential fallback version was found",
     plugin |-> id, version |-> vers, fallback |-> fallback]

unsupportedLog(id, vers, fallback) ==
    [msg |-> "not supported on your system but potential fallback version was found",
     plugin |-> id, version |-> vers, fallback |-> fallback]

\* selectVersion returns (ver, err) and writes to the debug log; plugin is
\* *plugin as the call leaves it
selectVersion(pl, vers, gv) ==
    LET nv == normalizeVersion(vers)
        latestForArch == latestSupportedVersion(pl)
        ver == findVersion(pl, nv)
    IN  IF latestForArch = NilVersion
        THEN [ver |-> NilVersion,
              err |-> ErrVersionUnsupported(pl.ID, nv, SystemInfo(gv)),
              log |-> <<>>, plugin |-> pl]
        ELSE IF nv = <<>>
        THEN [ver |-> latestForArch, err |-> NoErr, log |-> <<>>, plugin |-> pl]
        ELSE IF Len(ver.Version) = 0
        THEN [ver |-> NilVersion,
              err |-> ErrVersionNotFound(pl.ID, nv, SystemInfo(gv)),
              log |-> <<notFoundLog(pl.ID, nv, latestForArch.Version)>>,
              plugin |-> pl]
        ELSE IF ~supportsCurrentArch(ver)
        THEN [ver |-> NilVersion,
              err |-> ErrVersionUnsupported(pl.ID, nv, SystemInfo(gv)),
              log |-> <<unsupportedLog(pl.ID, nv, latestForArch.Version)>>,
              plugin |-> pl]
        ELSE [ver |-> ver, err |-> NoErr, log |-> <<>>, plugin |-> pl]

\* looks up "any" before the platform key
checksumOf_AnyFirst(ver) ==
    IF ~ver.ArchNil
    THEN LET archMeta == IF "any" \in DOMAIN ver.Arch
                         THEN ver.Arch["any"]
                         ELSE IF osAndArchString \in DOMAIN ver.Arch
                              THEN ver.Arch[osAndArchString]
                              ELSE ZeroArchMeta
         IN  archMeta.SHA256
    ELSE ""

\* lines 62-70 of GetDownloadOptions
checksumOf(ver) ==
    IF ~ver.ArchNil
    THEN LET exists == osAndArchString \in DOMAIN ver.Arch
             archMeta == IF exists
                         THEN ver.Arch[osAndArchString]
                         ELSE IF "any" \in DOMAIN ver.Arch
                              THEN ver.Arch["any"]
                              ELSE ZeroArchMeta
         IN  archMeta.SHA256
    ELSE ""

\* builds the archive location on the repository the service was given
pluginZipURL_RepoURL(id, ver) ==
    <<repoURL, "/", id, "/versions/">> \o ver.Version \o <<"/download">>

\* fmt.Sprintf("%s/%s/versions/%s/download", grafanaComAPIRoot, pluginID, v.Version)
pluginZipURL(id, ver) ==
    <<grafanaComAPIRoot, "/", id, "/versions/">> \o ver.Version \o <<"/download">>

\* lines 72-76 of GetDownloadOptions
downloadOptions(id, ver) ==
    [Version |-> ver.Version,
     Checksum |-> checksumOf(ver),
     PluginZipURL |-> pluginZipURL(id, ver)]

----------------------------------------------------------------------------
(* The service as a state machine *)

Init ==
    /\ repoURL \in RepoURLs
    /\ pc = "idle"
    /\ call = "none"
    /\ pluginID = ""
    /\ version = <<>>
    /\ grafanaVersion = ""
    /\ platform \in Platforms
    /\ plugin = ZeroPlugin
    /\ v = NilVersion
    /\ err = NoErr
    /\ log = <<>>
    /\ dlOpts = NilOptions
    /\ calls = <<>>
    /\ archive = NilArchive

\* a caller enters one of the exported methods with a version of requests
Enter(method, requests) ==
    /\ pc = "idle"
    /\ call' = method
    /\ pluginID' \in PluginIDs
    /\ version' \in requests
    /\ grafanaVersion' \in GrafanaVersions
    /\ pc' = "GetDownloadOptions"
    /\ UNCHANGED <<repoURL, platform, plugin, v, err, log, dlOpts, calls, archive>>

CallDownload(requests) == Enter("Download", requests)

CallGetDownloadOptions(requests) == Enter("GetDownloadOptions", requests)

CallDownloadWithURL ==
    /\ pc = "idle"
    /\ call' = "DownloadWithURL"
    /\ grafanaVersion' \in GrafanaVersions
    /\ \E u \in ZipURLs :
          dlOpts' = [Version |-> <<>>, Checksum |-> "", PluginZipURL |-> <<u>>]
    /\ pc' = "download"
    /\ UNCHANGED <<repoURL, pluginID, version, platform, plugin, v, err, log, calls,
                   archive>>

\* what pluginMetadata logs and sends before it has a response
fetchLog == [msg |-> "Fetching metadata", plugin |-> pluginID, repo |-> repoURL]

\* s.client.sendReq(u, grafanaVersion), u being repoURL/repo/pluginID
sendReq ==
    [op |-> "sendReq", url |-> <<repoURL, "/repo/", pluginID>>,
     grafanaVersion |-> grafanaVersion]

\* the same request, answered with a body that unmarshals to data
sendReqOk(data) ==
    [op |-> "sendReq", url |-> <<repoURL, "/repo/", pluginID>>,
     grafanaVersion |-> grafanaVersion, data |-> data]

\* GetDownloadOptions when pluginMetadata fails (url.Parse before the
\* request, sendReq or json.Unmarshal after it): the error is returned as
\* it is, and so by Download
getDownloadOptionsFail ==
    /\ pc = "GetDownloadOptions"
    /\ IF urlParseOk(repoURL)
       THEN /\ \E e \in {"sendReq", "json.Unmarshal"} : err' = [type |-> e]
            /\ calls' = Append(calls, sendReq)
       ELSE /\ err' = [type |-> "url.Parse"]
            /\ calls' = calls
    /\ log' = Append(log, fetchLog)
    /\ pc' = "return"
    /\ UNCHANGED <<repoURL, call, pluginID, version, grafanaVersion, platform,
                   plugin, v, dlOpts, archive>>

\* GetDownloadOptions when pluginMetadata returns a catalog of catalogs:
\* selectVersion, then the options of the version selected
getDownloadOptions(catalogs) ==
    /\ pc = "GetDownloadOptions"
    /\ urlParseOk(repoURL)
    /\ \E data \in catalogs :
          LET r == selectVersion(data, version, grafanaVersion)
          IN  /\ plugin' = r.plugin
              /\ v' = r.ver
              /\ err' = r.err
              /\ log' = Append(log, fetchLog) \o r.log
              /\ calls' = Append(calls, sendReqOk(data))
              /\ IF r.err # NoErr
                 THEN /\ dlOpts' = NilOptions
                      /\ pc' = "return"
                 ELSE /\ dlOpts' = downloadOptions(pluginID, r.ver)
                      /\ pc' = IF call = "Download" THEN "download" ELSE "return"
    /\ UNCHANGED <<repoURL, call, pluginID, version, grafanaVersion, platform,
                   archive>>

\* passes no checksum, as DownloadWithURL does
clientDownload_NoChecksum ==
    /\ pc = "download"
    /\ calls' = Append(calls, [op |-> "download", url |-> dlOpts.PluginZipURL,
                                checksum |-> "",
                                grafanaVersion |-> grafanaVersion])
    /\ \/ /\ archive' = [nil |-> FALSE, url |-> dlOpts.PluginZipURL]
          /\ err' = NoErr
       \/ /\ archive' = NilArchive
          /\ err' = [type |-> "download"]
    /\ pc' = "return"
    /\ UNCHANGED <<repoURL, call, pluginID, version, grafanaVersion, platform,
                   plugin, v, log, dlOpts>>

\* s.client.download(ctx, url, checksum, grafanaVersion)
clientDownload ==
    /\ pc = "download"
    /\ calls' = Append(calls, [op |-> "download", url |-> dlOpts.PluginZipURL,
                                checksum |-> dlOpts.Checksum,
                                grafanaVersion |-> grafanaVersion])
    /\ \/ /\ archive' = [nil |-> FALSE, url |-> dlOpts.PluginZipURL]
          /\ err' = NoErr
       \/ /\ archive' = NilArchive
          /\ err' = [type |-> "download"]
    /\ pc' = "return"
    /\ UNCHANGED <<repoURL, call, pluginID, version, grafanaVersion, platform,
                   plugin, v, log, dlOpts>>

\* the method returns to its caller; the service keeps nothing of the call
return ==
    /\ pc = "return"
    /\ pc' = "idle"
    /\ call' = "none"
    /\ pluginID' = ""
    /\ version' = <<>>
    /\ grafanaVersion' = ""
    /\ plugin' = ZeroPlugin
    /\ v' = NilVersion
    /\ err' = NoErr
    /\ log' = <<>>
    /\ dlOpts' = NilOptions
    /\ calls' = <<>>
    /\ archive' = NilArchive
    /\ UNCHANGED <<repoURL, platform>>

Service(requests, catalogs) ==
    \/ CallDownload(requests)
    \/ CallGetDownloadOptions(requests)
    \/ CallDownloadWithURL
    \/ getDownloadOptionsFail
    \/ getDownloadOptions(catalogs)
    \/ clientDownload
    \/ return

\* the service against every catalog up to MaxVersions entries
Next == Service(Requests, Catalogs)

Spec == Init /\ [][Next]_vars

\* the service with every request up to MaxLen characters
NextStrings == Service(Strings(MaxLen), ShortCatalogs)

SpecStrings == Init /\ [][NextStrings]_vars

----------------------------------------------------------------------------
(* Vocabulary of the properties *)

\* the state holds the outcome (v, err) of selectVersion for
\* (plugin, version, grafanaVersion)
Selected ==
    /\ pc \in {"download", "return"}
    /\ call \in {"Download", "GetDownloadOptions"}
    /\ err.type \in {"nil", "ErrVersionNotFound", "ErrVersionUnsupported"}

\* the request after normalization, as the claims name it
Normalized == normalizeVersion(version)

\* the support check as the specification words it
Supported(e) ==
    \/ e.ArchNil
    \/ platform \in DOMAIN e.Arch
    \/ "any" \in DOMAIN e.Arch

SomeSupported == \E i \in 1..Len(plugin.Versions) : Supported(plugin.Versions[i])

\* i is the smallest index of the catalog that passes the support check
FirstSupported(i) ==
    /\ i \in 1..Len(plugin.Versions)
    /\ Supported(plugin.Versions[i])
    /\ \A j \in 1..(i - 1) : ~Supported(plugin.Versions[j])

\* i is the index at which the linear search finds the version string s
FirstMatch(i, s) ==
    /\ i \in 1..Len(plugin.Versions)
    /\ plugin.Versions[i].Version = s
    /\ \A j \in 1..(i - 1) : plugin.Versions[j].Version # s

Present(s) == \E i \in 1..Len(plugin.Versions) : plugin.Versions[i].Version = s

----------------------------------------------------------------------------
(* C1: whenever the catalog has an entry supported on the current platform
   and the normalized request is empty, selectVersion succeeds and returns
   the entry at the smallest index that passes the support check, the
   catalog being scanned in the order given. *)
C1_LatestSupported ==
    (Selected /\ Normalized = <<>> /\ SomeSupported) =>
        /\ err = NoErr
        /\ \E i \in 1..Len(plugin.Versions) :
              FirstSupported(i) /\ v = plugin.Versions[i]

\* an unsupported entry precedes the supported ones, which are out of order
C1_Witness ==
    /\ Selected /\ Normalized = <<>>
    /\ Len(plugin.Versions) = 2
    /\ ~Supported(plugin.Versions[1])
    /\ Supported(plugin.Versions[2])
    /\ v = plugin.Versions[2]

(* C2: for a non-empty normalized request every successful result carries
   exactly the normalized request as its version string, and when the entry
   the search finds for that string (the first one, should the string occur
   twice) is supported, the call succeeds with that very entry. *)
C2_ExactMatch ==
    (Selected /\ Normalized # <<>>) =>
        /\ err = NoErr => v.Version = Normalized
        /\ \A i \in 1..Len(plugin.Versions) :
              (FirstMatch(i, Normalized) /\ Supported(plugin.Versions[i])) =>
                  (err = NoErr /\ v = plugin.Versions[i])

\* the requested entry is returned although a newer supported entry exists
C2_Witness ==
    /\ Selected /\ Normalized # <<>>
    /\ Len(plugin.Versions) = 2
    /\ Supported(plugin.Versions[1])
    /\ plugin.Versions[1].Version # Normalized
    /\ plugin.Versions[2].Version = Normalized
    /\ v = plugin.Versions[2]
    /\ v # plugin.Versions[1]

(* C3: with a supported entry in the catalog and a non-empty normalized
   request that is the version string of no entry, selectVersion returns no
   entry and ErrVersionNotFound with the plugin id, the normalized request
   and the system info. *)
C3_NotFound ==
    (Selected /\ SomeSupported /\ Normalized # <<>> /\ ~Present(Normalized)) =>
        /\ v = NilVersion
        /\ dlOpts = NilOptions
        /\ err = [type |-> "ErrVersionNotFound",
                  PluginID |-> plugin.ID,
                  RequestedVersion |-> Normalized,
                  SystemInfo |-> SystemInfo(grafanaVersion)]

\* the raw request differs from the normalized one carried by the error
C3_Witness ==
    /\ Selected /\ SomeSupported
    /\ version # Normalized /\ Normalized # <<>> /\ ~Present(Normalized)
    /\ err.type = "ErrVersionNotFound"

(* C4: when the entry found for the request has platformChecksums present
   with neither the current platform key nor "any", and another entry of
   the catalog is supported, selectVersion fails with ErrVersionUnsupported:
   neither ErrVersionNotFound nor the fallback entry. *)
C4_FoundUnsupported ==
    (Selected /\ Normalized # <<>> /\ SomeSupported) =>
        \A i \in 1..Len(plugin.Versions) :
            ( /\ FirstMatch(i, Normalized)
              /\ ~plugin.Versions[i].ArchNil
              /\ platform \notin DOMAIN plugin.Versions[i].Arch
              /\ "any" \notin DOMAIN plugin.Versions[i].Arch ) =>
                /\ v = NilVersion
                /\ err = [type |-> "ErrVersionUnsupported",
                          PluginID |-> plugin.ID,
                          RequestedVersion |-> Normalized,
                          SystemInfo |-> SystemInfo(grafanaVersion)]

\* the requested entry lists only another platform; the other entry is supported
C4_Witness ==
    /\ Selected /\ Normalized # <<>>
    /\ Len(plugin.Versions) = 2
    /\ plugin.Versions[1].Version = Normalized
    /\ DOMAIN plugin.Versions[1].Arch = {"linux-amd64"}
    /\ platform = "windows-amd64"
    /\ Supported(plugin.Versions[2])
    /\ err.type = "ErrVersionUnsupported"

(* C5: when no entry of the catalog is supported on the current platform
   (the empty catalog included), selectVersion fails with
   ErrVersionUnsupported carrying the normalized request, whether the
   request is empty, present in the catalog or absent from it. *)
C5_NothingSupported ==
    (Selected /\ ~SomeSupported) =>
        /\ v = NilVersion
        /\ err = [type |-> "ErrVersionUnsupported",
                  PluginID |-> plugin.ID,
                  RequestedVersion |-> Normalized,
                  SystemInfo |-> SystemInfo(grafanaVersion)]

\* a non-empty catalog without supported entry and a request absent from it
C5_Witness ==
    /\ Selected /\ ~SomeSupported
    /\ Len(plugin.Versions) > 0
    /\ Normalized # <<>> /\ ~Present(Normalized)
    /\ err.type = "ErrVersionUnsupported"

----------------------------------------------------------------------------
(* Vocabulary of the properties on requests *)

\* what selectVersion returns for the request req against the catalog held
Outcome(req) ==
    LET r == selectVersion(plugin, req, grafanaVersion)
    IN  [ver |-> r.ver, err |-> r.err]

Insert(s, i, c) == SubSeq(s, 1, i) \o <<c>> \o SubSeq(s, i + 1, Len(s))

Remove(s, i) == SubSeq(s, 1, i - 1) \o SubSeq(s, i + 1, Len(s))

\* the whitespace characters the claims name: space, tab, newline
Whitespace == {" ", "\t", "\n"}

StartsWithPrefix(s) == Len(s) >= 1 /\ s[1] \in {"^", "v"}

SpacesRemoved(s) == SelectSeq(s, LAMBDA c : c # " ")

\* the outcome for an empty request: the latest supported entry, if any
NoSpecificVersion ==
    SomeSupported =>
        /\ err = NoErr
        /\ \E i \in 1..Len(plugin.Versions) :
              FirstSupported(i) /\ v = plugin.Versions[i]

(* C6, as stated: for every catalog and every request X that does not start
   with "^" or "v", the requests "^X", "vX" and X have the same outcome. *)
C6_AsStated ==
    (Selected /\ ~StartsWithPrefix(version)) =>
        /\ Outcome(<<"^">> \o version) = [ver |-> v, err |-> err]
        /\ Outcome(<<"v">> \o version) = [ver |-> v, err |-> err]

(* C6, amended: for every catalog and every request X that, once its spaces
   are removed, does not start with "^" or "v", the requests "^X", "vX" and
   X have the same outcome: the same entry, or the same error with the same
   requested version. *)
C6_PrefixDropped ==
    (Selected /\ ~StartsWithPrefix(SpacesRemoved(version))) =>
        /\ Outcome(<<"^">> \o version) = [ver |-> v, err |-> err]
        /\ Outcome(<<"v">> \o version) = [ver |-> v, err |-> err]

\* a specific version is requested without prefix and found
C6_Witness ==
    /\ Selected
    /\ ~StartsWithPrefix(SpacesRemoved(version))
    /\ Normalized # <<>>
    /\ err = NoErr
    /\ v.Version = Normalized
    /\ Outcome(<<"v">> \o version).ver = v

(* C7, as stated: inserting or removing a whitespace character (space, tab,
   newline) at any position of the request leaves the normalized string
   unchanged, and a request of whitespace only is treated as no specific
   version. *)
C7_AsStated ==
    Selected =>
        /\ \A i \in 0..Len(version), c \in Whitespace :
              normalizeVersion(Insert(version, i, c)) = Normalized
        /\ \A i \in 1..Len(version) :
              version[i] \in Whitespace =>
                  normalizeVersion(Remove(version, i)) = Normalized
        /\ (\A i \in 1..Len(version) : version[i] \in Whitespace) =>
              (Normalized = <<>> /\ NoSpecificVersion)

(* C7, amended: inserting or removing a space character at any position of
   the request leaves the normalized string unchanged, and a request of
   spaces only is treated as no specific version. *)
C7_SpacesStripped ==
    Selected =>
        /\ \A i \in 0..Len(version) :
              normalizeVersion(Insert(version, i, " ")) = Normalized
        /\ \A i \in 1..Len(version) :
              version[i] = " " =>
                  normalizeVersion(Remove(version, i)) = Normalized
        /\ (\A i \in 1..Len(version) : version[i] = " ") =>
              (Normalized = <<>> /\ NoSpecificVersion)

\* a request of spaces only resolves to the latest supported entry
C7_Witness ==
    /\ Selected
    /\ Len(version) = 2
    /\ Len(plugin.Versions) = 1
    /\ \A i \in 1..Len(version) : version[i] = " "
    /\ SomeSupported
    /\ err = NoErr
    /\ v # NilVersion

----------------------------------------------------------------------------
(* Vocabulary of the properties on failures *)

\* a specific version was requested, a fallback exists, resolution failed
FailedSpecific ==
    /\ Selected
    /\ SomeSupported
    /\ err.type \in {"ErrVersionNotFound", "ErrVersionUnsupported"}

\* what the error value holds for its message
ErrorContent(e) == {<<e.PluginID>>, e.RequestedVersion, e.SystemInfo}

(* C8, as stated: when a specific version fails with ErrVersionNotFound, or
   with ErrVersionUnsupported for a version that is found, the error value
   returned references the latest supported fallback version. *)
C8_AsStated ==
    FailedSpecific =>
        \E i \in 1..Len(plugin.Versions) :
            /\ FirstSupported(i)
            /\ plugin.Versions[i].Version \in ErrorContent(err)

(* C8, amended: in those failures the latest supported fallback version is
   named in the debug log message written before the return, as a hint
   only: no entry is returned and the error value holds the plugin id, the
   normalized request and the system info, nothing else. *)
C8_FallbackLogged ==
    FailedSpecific =>
        /\ v = NilVersion
        /\ dlOpts = NilOptions
        /\ DOMAIN err = {"type", "PluginID", "RequestedVersion", "SystemInfo"}
        /\ err.PluginID = plugin.ID
        /\ err.RequestedVersion = Normalized
        /\ err.SystemInfo = SystemInfo(grafanaVersion)
        /\ Len(log) = 2
        /\ log[2].version = Normalized
        /\ \E i \in 1..Len(plugin.Versions) :
              FirstSupported(i) /\ log[2].fallback = plugin.Versions[i].Version

\* the version is not found while a fallback with another version exists
C8_Witness ==
    /\ FailedSpecific
    /\ err.type = "ErrVersionNotFound"
    /\ Len(log) = 2
    /\ log[2].fallback = <<"1">>
    /\ err.RequestedVersion # <<"1">>

----------------------------------------------------------------------------
(* C9: an entry without platformChecksums (Arch is nil) passes the support
   check on every platform, so it is resolved when it is the entry requested
   or the first supported one, and its download options carry the empty
   checksum. *)
C9_NilArch ==
    Selected =>
        \A i \in 1..Len(plugin.Versions) :
            plugin.Versions[i].ArchNil =>
                /\ supportsCurrentArch(plugin.Versions[i])
                /\ ( \/ (Normalized # <<>> /\ FirstMatch(i, Normalized))
                     \/ (Normalized = <<>> /\ \A j \in 1..(i - 1) :
                                                 ~Supported(plugin.Versions[j])) ) =>
                      /\ err = NoErr
                      /\ v = plugin.Versions[i]
                      /\ dlOpts # NilOptions
                      /\ dlOpts.Checksum = ""

\* such an entry is requested on the platform that no catalog names
C9_Witness ==
    /\ Selected
    /\ platform = "windows-amd64"
    /\ Normalized # <<>>
    /\ v # NilVersion
    /\ v.ArchNil
    /\ dlOpts.Checksum = ""

(* C10: for every resolved entry the options are built, and their checksum
   is Arch[current platform] when that key is present, also when "any" is
   present too, otherwise Arch["any"] when present, otherwise empty. *)
C10_Checksum ==
    (Selected /\ err = NoErr) =>
        /\ v # NilVersion
        /\ dlOpts # NilOptions
        /\ dlOpts.Checksum =
              IF platform \in DOMAIN v.Arch
              THEN v.Arch[platform].SHA256
              ELSE IF "any" \in DOMAIN v.Arch
                   THEN v.Arch["any"].SHA256
                   ELSE ""

\* both keys are present and the platform's checksum is taken
C10_Witness ==
    /\ Selected /\ err = NoErr
    /\ ~v.ArchNil
    /\ DOMAIN v.Arch = {"linux-amd64", "any"}
    /\ platform = "linux-amd64"
    /\ dlOpts.Checksum = "sha-linux-amd64"

----------------------------------------------------------------------------
(* C11: the download options of a resolved entry are determined by the
   entry, the plugin id and the platform alone, in every call and for every
   service: their version is the entry's version, their checksum the one of
   the entry for the platform, and their location is
   https://grafana.com/api/plugins/{pluginID}/versions/{version}/download,
   whatever repository URL the service was constructed with. *)
C11_Options ==
    (Selected /\ err = NoErr) =>
        /\ dlOpts.Version = v.Version
        /\ dlOpts.Checksum =
              IF platform \in DOMAIN v.Arch
              THEN v.Arch[platform].SHA256
              ELSE IF "any" \in DOMAIN v.Arch THEN v.Arch["any"].SHA256 ELSE ""
        /\ dlOpts.PluginZipURL =
              <<"https://grafana.com/api/plugins", "/", pluginID, "/versions/">>
                  \o v.Version \o <<"/download">>
        /\ DOMAIN dlOpts = {"Version", "Checksum", "PluginZipURL"}

\* a service on a mirror repository builds the location on grafana.com
C11_Witness ==
    /\ Selected /\ err = NoErr
    /\ repoURL = "https://plugins.example.org/api"
    /\ v.Version = <<"1", "1">>
    /\ dlOpts.PluginZipURL =
          <<"https://grafana.com/api/plugins", "/", "grafana-clock-panel",
            "/versions/", "1", "1", "/download">>

----------------------------------------------------------------------------
(* Vocabulary of the properties on the order of the steps *)

MetadataErrors == {"url.Parse", "sendReq", "json.Unmarshal"}

ResolutionErrors == {"ErrVersionNotFound", "ErrVersionUnsupported"}

\* the calls of the archive fetcher made so far in this call of the service
Downloads == {i \in 1..Len(calls) : calls[i].op = "download"}

\* Download is about to return
DownloadReturns == call = "Download" /\ pc = "return"

(* C12: in Download the metadata fetch comes first, the resolution second
   and the archive download last.  A failed metadata fetch is returned as it
   is, with no resolution and no archive download; a failed resolution is
   returned with no archive download; after a successful resolution, and
   only then, the archive fetcher is called, once, with the location and the
   checksum of the options, and never before the metadata request. *)
C12_Order ==
    call = "Download" =>
        /\ Cardinality(Downloads) <= 1
        /\ \A i \in Downloads :
              /\ i = 2
              /\ calls[1].op = "sendReq"
              /\ plugin # ZeroPlugin
              /\ v # NilVersion
              /\ Outcome(version) = [ver |-> v, err |-> NoErr]
              /\ calls[i].url = dlOpts.PluginZipURL
              /\ calls[i].checksum = dlOpts.Checksum
              /\ calls[i].url = <<grafanaComAPIRoot, "/", pluginID, "/versions/">>
                                    \o v.Version \o <<"/download">>
              /\ calls[i].checksum =
                    IF platform \in DOMAIN v.Arch
                    THEN v.Arch[platform].SHA256
                    ELSE IF "any" \in DOMAIN v.Arch
                         THEN v.Arch["any"].SHA256
                         ELSE ""
        /\ pc = "download" => (err = NoErr /\ v # NilVersion /\ Downloads = {})
        /\ (DownloadReturns /\ err.type \in MetadataErrors) =>
              /\ Downloads = {}
              /\ plugin = ZeroPlugin
              /\ v = NilVersion
              /\ dlOpts = NilOptions
              /\ archive = NilArchive
              /\ Len(log) = 1
        /\ (DownloadReturns /\ err.type \in ResolutionErrors) =>
              /\ Downloads = {}
              /\ err = Outcome(version).err
              /\ v = NilVersion
              /\ dlOpts = NilOptions
              /\ archive = NilArchive
        /\ (DownloadReturns /\ err.type \notin MetadataErrors \cup ResolutionErrors) =>
              /\ Downloads = {2}
              /\ Len(calls) = 2

\* Download has fetched the archive of a resolved entry that has a checksum
C12_Witness ==
    /\ DownloadReturns
    /\ err = NoErr
    /\ archive # NilArchive
    /\ Len(calls) = 2
    /\ calls[2].op = "download"
    /\ calls[2].checksum = "sha-any"
    /\ v.Version = <<"1">>

----------------------------------------------------------------------------
(* C13: over all catalogs (version strings that occur twice, Arch present
   but empty and empty version strings included) and all requests: a
   successful selectVersion returns an entry that is an element of
   plugin.Versions and passes the support check for the current platform, a
   failed one returns no entry, and the catalog is after the call what the
   metadata source returned. *)
C13_ResultInCatalog ==
    Selected =>
        /\ plugin = calls[1].data
        /\ err = NoErr =>
              /\ \E i \in 1..Len(plugin.Versions) : v = plugin.Versions[i]
              /\ Supported(v)
        /\ err # NoErr => v = NilVersion

\* two entries with the empty version string, the first with an empty Arch
C13_Witness ==
    /\ Selected
    /\ err = NoErr
    /\ Len(plugin.Versions) = 2
    /\ plugin.Versions[1].Version = <<>>
    /\ plugin.Versions[2].Version = <<>>
    /\ ~plugin.Versions[1].ArchNil
    /\ DOMAIN plugin.Versions[1].Arch = {}
    /\ v = plugin.Versions[2]
    /\ v # plugin.Versions[1]

====
